---- MODULE Spec2Model ----
(***************************************************************************)
(* A model of databricks-integration/action/app.py: the projection of      *)
(* annotation documents onto component identifiers, the CSV file the       *)
(* action writes, and the handler pipeline against the Databricks SQL      *)
(* connector.                                                              *)
(*                                                                         *)
(* Python strings are sequences of one-character strings.  Python values   *)
(* of mixed type (an attribute's name, a path segment) are records         *)
(* [t, s, n]: t is the type, s the text of a str, n the value of an int.   *)
(***************************************************************************)
EXTENDS Integers, Sequences, FiniteSets, TLC

VARIABLES proj, csvw, procs, inputs, pc, outcome, trace, stmts, locals, conn, clock, volume,
          tables, loaded

vars ==
    <<proj, csvw, procs, inputs, pc, outcome, trace, stmts, locals, conn, clock, volume, tables,
      loaded>>

(***************************************************************************)
(* Python values                                                           *)
(***************************************************************************)
PyStr(s) == [t |-> "str", s |-> s, n |-> 0]

PyInt(n) == [t |-> "int", s |-> <<>>, n |-> n]

PyNone == [t |-> "none", s |-> <<>>, n |-> 0]

\* x == s for a str s: values of different types are never equal
PyEqStr(x, s) == x.t = "str" /\ x.s = s

Digit(d) == <<"0", "1", "2", "3", "4", "5", "6", "7", "8", "9">>[d + 1]

RECURSIVE Decimal(_)
Decimal(n) == IF n < 10 THEN <<Digit(n)>> ELSE Decimal(n \div 10) \o <<Digit(n % 10)>>

\* str(value)
str(x) ==
    CASE x.t = "str" -> x.s
      [] x.t = "int" -> IF x.n < 0 THEN <<"-">> \o Decimal(0 - x.n) ELSE Decimal(x.n)
      [] x.t = "none" -> <<"N", "o", "n", "e">>

\* a dict: a function whose domain is the key set
EmptyDict == [k \in {} |-> <<>>]

DictSet(d, k, v) == [x \in (DOMAIN d) \cup {k} |-> IF x = k THEN v ELSE d[x]]

(***************************************************************************)
(* find_componets_values                                                   *)
(* An instance is [has_path, element_path, has_attributes, attributes]; an *)
(* attribute is [has_name, name]; an annotation is [has_instances,         *)
(* instances].  The result is [raised, values]: raised when a subscript    *)
(* of the code fails (IndexError, KeyError).                               *)
(***************************************************************************)
Raised == [raised |-> TRUE, values |-> EmptyDict]

\* annotation.get("instances", [])
InstancesOf(annotation) == IF annotation.has_instances THEN annotation.instances ELSE <<>>

\* instance['attributes'][0]['name'] can be read
HasFirstName(instance) ==
    /\ instance.has_attributes
    /\ Len(instance.attributes) > 0
    /\ instance.attributes[1].has_name

\* the inner loop over the instances, from instance i on, for one component_id
RECURSIVE ScanInstances(_, _, _, _)
ScanInstances(instances, i, component_id, values) ==
    IF i > Len(instances) THEN [raised |-> FALSE, values |-> values]
    ELSE LET instance == instances[i] IN
         IF ~instance.has_path THEN ScanInstances(instances, i + 1, component_id, values)
         ELSE IF Len(instance.element_path) = 0 THEN Raised
         ELSE LET id_in_path == instance.element_path[1] IN
              IF id_in_path # PyNone /\ PyEqStr(id_in_path, component_id)
              THEN IF ~HasFirstName(instance) THEN Raised
                   ELSE ScanInstances(instances, i + 1, component_id,
                                      DictSet(values, component_id, str(instance.attributes[1].name)))
              ELSE ScanInstances(instances, i + 1, component_id, values)

\* the same loop, keeping the first match instead of overwriting
RECURSIVE ScanInstancesFirst(_, _, _, _)
ScanInstancesFirst(instances, i, component_id, values) ==
    IF i > Len(instances) THEN [raised |-> FALSE, values |-> values]
    ELSE LET instance == instances[i] IN
         IF ~instance.has_path THEN ScanInstancesFirst(instances, i + 1, component_id, values)
         ELSE IF Len(instance.element_path) = 0 THEN Raised
         ELSE LET id_in_path == instance.element_path[1] IN
              IF id_in_path # PyNone /\ PyEqStr(id_in_path, component_id)
              THEN IF ~HasFirstName(instance) THEN Raised
                   ELSE ScanInstancesFirst(instances, i + 1, component_id,
                            IF component_id \in DOMAIN values THEN values
                            ELSE DictSet(values, component_id, str(instance.attributes[1].name)))
              ELSE ScanInstancesFirst(instances, i + 1, component_id, values)

\* the outer loop over the component ids, from id k on
RECURSIVE ScanIds(_, _, _, _)
ScanIds(annotation, ids, k, values) ==
    IF k > Len(ids) THEN [raised |-> FALSE, values |-> values]
    ELSE LET r == ScanInstances(InstancesOf(annotation), 1, ids[k], values) IN
         IF r.raised THEN Raised
         ELSE ScanIds(annotation, ids, k + 1,
                      IF ids[k] \in DOMAIN r.values THEN r.values
                      ELSE DictSet(r.values, ids[k], <<>>))

RECURSIVE ScanIdsFirst(_, _, _, _)
ScanIdsFirst(annotation, ids, k, values) ==
    IF k > Len(ids) THEN [raised |-> FALSE, values |-> values]
    ELSE LET r == ScanInstancesFirst(InstancesOf(annotation), 1, ids[k], values) IN
         IF r.raised THEN Raised
         ELSE ScanIdsFirst(annotation, ids, k + 1,
                      IF ids[k] \in DOMAIN r.values THEN r.values
                      ELSE DictSet(r.values, ids[k], <<>>))

find_componets_values_first(annotation, ids) == ScanIdsFirst(annotation, ids, 1, EmptyDict)

find_componets_values(annotation, ids) == ScanIds(annotation, ids, 1, EmptyDict)

(***************************************************************************)
(* csv.DictWriter (dialect excel: delimiter ',', quotechar '"',            *)
(* doublequote, lineterminator '\r\n', QUOTE_MINIMAL; restval '',          *)
(* extrasaction 'raise') on a file opened with newline='\n', which         *)
(* translates nothing on output.                                           *)
(***************************************************************************)
Special == {",", "\"", "\r", "\n"}

NeedsQuote(f) == \E i \in 1..Len(f) : f[i] \in Special

RECURSIVE DoubleQuotes(_)
DoubleQuotes(f) ==
    IF f = <<>> THEN <<>>
    ELSE (IF Head(f) = "\"" THEN <<"\"", "\"">> ELSE <<Head(f)>>) \o DoubleQuotes(Tail(f))

FormatField(f) == IF NeedsQuote(f) THEN <<"\"">> \o DoubleQuotes(f) \o <<"\"">> ELSE f

RECURSIVE JoinFields(_)
JoinFields(row) ==
    IF row = <<>> THEN <<>>
    ELSE IF Len(row) = 1 THEN FormatField(row[1])
    ELSE FormatField(Head(row)) \o <<",">> \o JoinFields(Tail(row))

\* csv.writer.writerow: a record of one empty field is written quoted
writerow_text(row) ==
    LET rec == JoinFields(row) IN
    (IF Len(row) > 0 /\ Len(rec) = 0 THEN <<"\"", "\"">> ELSE rec) \o <<"\r", "\n">>

Elems(list) == {list[i] : i \in 1..Len(list)}

\* the same with extrasaction 'ignore'
dict_to_list_ignore(fieldnames, rowdict) ==
    [raised |-> FALSE,
     row |-> [i \in 1..Len(fieldnames) |->
                IF fieldnames[i] \in DOMAIN rowdict THEN rowdict[fieldnames[i]] ELSE <<>>]]

\* DictWriter._dict_to_list: a key outside fieldnames raises ValueError,
\* a fieldname outside the dict is written as restval
dict_to_list(fieldnames, rowdict) ==
    IF (DOMAIN rowdict) \ Elems(fieldnames) # {}
    THEN [raised |-> TRUE, row |-> <<>>]
    ELSE [raised |-> FALSE,
          row |-> [i \in 1..Len(fieldnames) |->
                     IF fieldnames[i] \in DOMAIN rowdict THEN rowdict[fieldnames[i]] ELSE <<>>]]

\* the loop of write_csv_file over annotation_data, from annotation k on;
\* the result is [raised, error, written, file]: the text of the file, and
\* the number of data rows written
RECURSIVE WriteRows(_, _, _, _, _)
WriteRows(db_column_names, annotation_data, sa_component_ids, k, file) ==
    IF k > Len(annotation_data)
    THEN [raised |-> FALSE, error |-> "", written |-> k - 1, file |-> file]
    ELSE LET sa_values == find_componets_values(annotation_data[k], sa_component_ids) IN
         IF sa_values.raised
         THEN [raised |-> TRUE, error |-> "projection", written |-> k - 1, file |-> file]
         ELSE LET r == dict_to_list(db_column_names, sa_values.values) IN
              IF r.raised
              THEN [raised |-> TRUE, error |-> "ValueError", written |-> k - 1, file |-> file]
              ELSE WriteRows(db_column_names, annotation_data, sa_component_ids, k + 1,
                             file \o writerow_text(r.row))

\* the loop writing the rows in reverse order of annotation_data
RECURSIVE WriteRowsReversed(_, _, _, _, _)
WriteRowsReversed(db_column_names, annotation_data, sa_component_ids, k, file) ==
    IF k > Len(annotation_data)
    THEN [raised |-> FALSE, error |-> "", written |-> k - 1, file |-> file]
    ELSE LET sa_values == find_componets_values(annotation_data[Len(annotation_data) + 1 - k],
                                                sa_component_ids) IN
         IF sa_values.raised
         THEN [raised |-> TRUE, error |-> "projection", written |-> k - 1, file |-> file]
         ELSE LET r == dict_to_list(db_column_names, sa_values.values) IN
              IF r.raised
              THEN [raised |-> TRUE, error |-> "ValueError", written |-> k - 1, file |-> file]
              ELSE WriteRowsReversed(db_column_names, annotation_data, sa_component_ids, k + 1,
                                     file \o writerow_text(r.row))

write_csv_file_reversed(db_column_names, annotation_data, sa_component_ids) ==
    WriteRowsReversed(db_column_names, annotation_data, sa_component_ids, 1,
                      writerow_text(db_column_names))

\* write_csv_file: writeheader, then one writerow per annotation
write_csv_file(db_column_names, annotation_data, sa_component_ids) ==
    WriteRows(db_column_names, annotation_data, sa_component_ids, 1,
              writerow_text(db_column_names))

(***************************************************************************)
(* csv.reader (dialect excel) over the lines of a file opened with         *)
(* newline='': the parser of the csv module, one character at a time, with *)
(* the end-of-line mark "EOL" it is given after each line.                 *)
(***************************************************************************)
ReaderStart == [st |-> "START_RECORD", field |-> <<>>, row |-> <<>>, rows |-> <<>>, err |-> FALSE]

SaveField(S) == [S EXCEPT !.row = Append(S.row, S.field), !.field = <<>>]

AddChar(S, c) == [S EXCEPT !.field = Append(S.field, c)]

AfterNewline(c) == IF c = "EOL" THEN "START_RECORD" ELSE "EAT_CRNL"

StartField(S, c) ==
    IF c \in {"\n", "\r", "EOL"} THEN [SaveField(S) EXCEPT !.st = AfterNewline(c)]
    ELSE IF c = "\"" THEN [S EXCEPT !.st = "IN_QUOTED_FIELD"]
    ELSE IF c = "," THEN [SaveField(S) EXCEPT !.st = "START_FIELD"]
    ELSE [AddChar(S, c) EXCEPT !.st = "IN_FIELD"]

\* parse_process_char
ProcessChar(S, c) ==
    CASE S.st = "START_RECORD" ->
            IF c = "EOL" THEN S
            ELSE IF c \in {"\n", "\r"} THEN [S EXCEPT !.st = "EAT_CRNL"]
            ELSE StartField(S, c)
      [] S.st = "START_FIELD" -> StartField(S, c)
      [] S.st = "IN_FIELD" ->
            IF c \in {"\n", "\r", "EOL"} THEN [SaveField(S) EXCEPT !.st = AfterNewline(c)]
            ELSE IF c = "," THEN [SaveField(S) EXCEPT !.st = "START_FIELD"]
            ELSE AddChar(S, c)
      [] S.st = "IN_QUOTED_FIELD" ->
            IF c = "EOL" THEN S
            ELSE IF c = "\"" THEN [S EXCEPT !.st = "QUOTE_IN_QUOTED_FIELD"]
            ELSE AddChar(S, c)
      [] S.st = "QUOTE_IN_QUOTED_FIELD" ->
            IF c = "\"" THEN [AddChar(S, c) EXCEPT !.st = "IN_QUOTED_FIELD"]
            ELSE IF c = "," THEN [SaveField(S) EXCEPT !.st = "START_FIELD"]
            ELSE IF c \in {"\n", "\r", "EOL"} THEN [SaveField(S) EXCEPT !.st = AfterNewline(c)]
            ELSE [AddChar(S, c) EXCEPT !.st = "IN_FIELD"]
      [] S.st = "EAT_CRNL" ->
            IF c \in {"\n", "\r"} THEN S
            ELSE IF c = "EOL" THEN [S EXCEPT !.st = "START_RECORD"]
            ELSE [S EXCEPT !.err = TRUE]

\* character i ends a line: "\n", "\r\n", a lone "\r", or the end of the text
EndsLine(text, i) ==
    \/ i = Len(text)
    \/ text[i] = "\n"
    \/ text[i] = "\r" /\ text[i + 1] # "\n"

\* Reader.__next__ at the end of a line: the record is complete when the
\* parser is back at START_RECORD
EndLine(S) ==
    LET T == ProcessChar(S, "EOL") IN
    IF T.err \/ T.st # "START_RECORD" THEN T
    ELSE [T EXCEPT !.rows = Append(T.rows, T.row), !.row = <<>>]

RECURSIVE ReadFrom(_, _, _)
ReadFrom(text, i, S) ==
    IF S.err THEN S
    ELSE IF i > Len(text)
    THEN \* no more lines: a record left open is returned as it stands
         IF S.st = "START_RECORD" THEN S
         ELSE [SaveField(S) EXCEPT !.rows = Append(S.rows, Append(S.row, S.field)),
                                   !.row = <<>>, !.st = "START_RECORD"]
    ELSE LET T == ProcessChar(S, text[i]) IN
         ReadFrom(text, i + 1, IF ~T.err /\ EndsLine(text, i) THEN EndLine(T) ELSE T)

\* list(csv.reader(file)): [err, rows]
csv_reader(text) == LET S == ReadFrom(text, 1, ReaderStart) IN [err |-> S.err, rows |-> S.rows]

(***************************************************************************)
(* Inputs of the two functions                                             *)
(***************************************************************************)
MaxIds == 2

MaxInstances == 2

MaxDocs == 2

SeqsUpTo(S, n) == UNION {[1..k -> S] : k \in 0..n}

A == <<"a">>

B == <<"b">>

Attr(v) == [has_name |-> TRUE, name |-> v]

AttrNoName == [has_name |-> FALSE, name |-> PyNone]

Inst(path, attributes) ==
    [has_path |-> TRUE, element_path |-> path, has_attributes |-> TRUE, attributes |-> attributes]

InstNoAttributes(path) ==
    [has_path |-> TRUE, element_path |-> path, has_attributes |-> FALSE, attributes |-> <<>>]

InstNoPath ==
    [has_path |-> FALSE, element_path |-> <<>>, has_attributes |-> TRUE,
     attributes |-> <<Attr(PyStr(<<"z">>))>>]

Doc(instances) == [has_instances |-> TRUE, instances |-> instances]

DocNoInstances == [has_instances |-> FALSE, instances |-> <<>>]

IdLists == SeqsUpTo({A, B}, MaxIds)

ProjPaths == {<<>>, <<PyStr(A)>>, <<PyStr(B), PyStr(A)>>, <<PyNone>>}

ProjAttributes ==
    {<<>>, <<AttrNoName>>, <<Attr(PyStr(<<"x">>))>>, <<Attr(PyInt(12)), Attr(PyStr(<<"x">>))>>}

ProjInstances ==
    {InstNoPath} \cup {Inst(p, a) : p \in ProjPaths, a \in ProjAttributes}
                 \cup {InstNoAttributes(p) : p \in ProjPaths}

ProjDocs == {DocNoInstances} \cup {Doc(i) : i \in SeqsUpTo(ProjInstances, MaxInstances)}

CsvNames ==
    {PyStr(<<"x">>), PyStr(<<>>), PyStr(<<",">>), PyStr(<<"\"">>), PyStr(<<"\n">>),
     PyStr(<<"\r">>), PyInt(7)}

CsvDocs ==
    {DocNoInstances, Doc(<<Inst(<<PyStr(A)>>, <<>>)>>)}
    \cup {Doc(<<Inst(<<PyStr(A)>>, <<Attr(v)>>)>>) : v \in CsvNames}
    \cup {Doc(<<Inst(<<PyStr(A)>>, <<Attr(PyStr(<<"x">>))>>),
                Inst(<<PyStr(B)>>, <<Attr(PyStr(<<"\n">>))>>)>>),
          Doc(<<Inst(<<PyStr(B)>>, <<Attr(PyStr(<<"x">>))>>),
                Inst(<<PyStr(A)>>, <<Attr(PyStr(<<",">>))>>)>>)}

NoResult == [raised |-> FALSE, error |-> "", written |-> 0, file |-> <<>>]

NoRead == [err |-> FALSE, rows |-> <<>>]

(***************************************************************************)
(* The handler's state is empty while a function is checked on its own.    *)
(***************************************************************************)
NoHandler ==
    /\ procs = {}
    /\ inputs = <<>>
    /\ pc = <<>>
    /\ outcome = <<>>
    /\ trace = <<>>
    /\ stmts = <<>>
    /\ locals = <<>>
    /\ conn = <<>>
    /\ clock = 0
    /\ volume = {}
    /\ tables = {}
    /\ loaded = <<>>

handlerVars ==
    <<procs, inputs, pc, outcome, trace, stmts, locals, conn, clock, volume, tables, loaded>>

NotCalled == [raised |-> FALSE, values |-> EmptyDict]

NoProj == [pc |-> "idle", annotation |-> DocNoInstances, ids |-> <<>>, result |-> NotCalled]

NoCsv ==
    [pc |-> "idle", db_column_names |-> <<>>, annotation_data |-> <<>>,
     sa_component_ids |-> <<>>, result |-> NoResult, read |-> NoRead]

(***************************************************************************)
(* find_componets_values applied to one annotation and one id list         *)
(***************************************************************************)
InitProj ==
    /\ proj \in {[pc |-> "call", annotation |-> d, ids |-> i, result |-> NotCalled] :
                    d \in ProjDocs, i \in IdLists}
    /\ csvw = NoCsv
    /\ NoHandler

Project ==
    /\ proj.pc = "call"
    /\ proj' = [proj EXCEPT !.pc = "done",
                            !.result = find_componets_values(proj.annotation, proj.ids)]
    /\ UNCHANGED <<csvw, handlerVars>>

NextProj == Project

SpecProj == InitProj /\ [][NextProj]_vars

(***************************************************************************)
(* write_csv_file applied to a column list, annotations and an id list,    *)
(* and the file read back with csv.reader                                  *)
(***************************************************************************)
InitCsv ==
    /\ csvw \in {[pc |-> "call", db_column_names |-> c, annotation_data |-> d,
                  sa_component_ids |-> i, result |-> NoResult, read |-> NoRead] :
                    c \in IdLists, d \in SeqsUpTo(CsvDocs, MaxDocs), i \in IdLists}
    /\ proj = NoProj
    /\ NoHandler

WriteCsv ==
    /\ csvw.pc = "call"
    /\ csvw' = [csvw EXCEPT !.pc = "written",
                            !.result = write_csv_file(csvw.db_column_names, csvw.annotation_data,
                                                      csvw.sa_component_ids)]
    /\ UNCHANGED <<proj, handlerVars>>

ReadBack ==
    /\ csvw.pc = "written"
    /\ csvw' = [csvw EXCEPT !.pc = "read", !.read = csv_reader(csvw.result.file)]
    /\ UNCHANGED <<proj, handlerVars>>

NextCsv == WriteCsv \/ ReadBack

SpecCsv == InitCsv /\ [][NextCsv]_vars

(***************************************************************************)
(* What the projection and the file are expected to be                     *)
(***************************************************************************)
Max(S) == CHOOSE x \in S : \A y \in S : y <= x

\* the instances of the annotation whose path starts with the identifier
Matching(annotation, id) ==
    LET I == InstancesOf(annotation) IN
    {i \in 1..Len(I) : I[i].has_path /\ Len(I[i].element_path) > 0
                         /\ PyEqStr(I[i].element_path[1], id)}

\* every subscript the projection takes exists
Projectable(annotation, ids) ==
    LET I == InstancesOf(annotation) IN
    \/ ids = <<>>
    \/ /\ \A i \in 1..Len(I) : I[i].has_path => Len(I[i].element_path) > 0
       /\ \A k \in 1..Len(ids) : \A i \in Matching(annotation, ids[k]) : HasFirstName(I[i])

ExpectedValue(annotation, id) ==
    LET M == Matching(annotation, id) IN
    IF M = {} THEN <<>> ELSE str(InstancesOf(annotation)[Max(M)].attributes[1].name)

ExpectedMapping(annotation, ids) == [id \in Elems(ids) |-> ExpectedValue(annotation, id)]

ExpectedRow(annotation, columns, ids) ==
    [j \in 1..Len(columns) |->
        IF columns[j] \in Elems(ids) THEN ExpectedValue(annotation, columns[j]) ELSE <<>>]

\* C6 as stated: for every annotation document and every list of requested
\* identifiers find_componets_values returns a mapping whose keys are exactly
\* the requested identifiers, each mapped to the string form of the first
\* attribute's name of the last matching instance, or to the empty string.
C6_AsStated ==
    proj.pc = "done" =>
        /\ ~proj.result.raised
        /\ proj.result.values = ExpectedMapping(proj.annotation, proj.ids)

\* C6 amended: the mapping is returned exactly when every subscript the
\* projection takes exists (a path that is present is not empty, a matching
\* instance has a first attribute with a name); otherwise the call raises.
C6_Projection ==
    proj.pc = "done" =>
        /\ proj.result.raised <=> ~Projectable(proj.annotation, proj.ids)
        /\ ~proj.result.raised =>
              /\ DOMAIN proj.result.values = Elems(proj.ids)
              /\ proj.result.values = ExpectedMapping(proj.annotation, proj.ids)

\* two instances match the identifier "a" with different names and the last wins,
\* while "b" matches none
C6_Witness ==
    /\ proj.pc = "done"
    /\ ~proj.result.raised
    /\ proj.ids = <<A, B>>
    /\ Cardinality(Matching(proj.annotation, A)) = 2
    /\ Matching(proj.annotation, B) = {}
    /\ proj.result.values[A] = <<"x">>
    /\ proj.result.values[B] = <<>>
    /\ str(InstancesOf(proj.annotation)[1].attributes[1].name) = <<"1", "2">>

AllProjectable(docs, ids) == \A k \in 1..Len(docs) : Projectable(docs[k], ids)

\* the file reads back as the header and one row per annotation, in order
ReadsBackAsWritten ==
    LET N == Len(csvw.annotation_data) IN
    /\ ~csvw.result.raised
    /\ csvw.result.written = N
    /\ ~csvw.read.err
    /\ Len(csvw.read.rows) = N + 1
    /\ csvw.read.rows[1] = csvw.db_column_names
    /\ \A k \in 1..N :
          csvw.read.rows[k + 1] =
              ExpectedRow(csvw.annotation_data[k], csvw.db_column_names, csvw.sa_component_ids)

SA_COMPONENT_IDS_ARG == "sa_component_ids"

DB_COLUMN_NAMES_ARG == "databricks_columns"

DB_SERVER_HOSTNAME_ARG == "db_server_hostname"

DB_HTTP_PATH_ARG == "db_http_path"

DB_CATALOG_ARG == "db_catalog"

DB_SCHEMA_ARG == "db_schema"

DB_TABLE_ARG == "db_table"

DB_VOLUME_ARG == "db_volume"

CREATE_DELTA_TABLE_ARG == "create_delta_table"

\* the arguments in the order handler parses them
Arguments ==
    <<SA_COMPONENT_IDS_ARG, DB_COLUMN_NAMES_ARG, DB_SERVER_HOSTNAME_ARG, DB_HTTP_PATH_ARG,
      DB_CATALOG_ARG, DB_SCHEMA_ARG, DB_TABLE_ARG, DB_VOLUME_ARG, CREATE_DELTA_TABLE_ARG>>

Given(s) == [present |-> TRUE, s |-> s]

Absent == [present |-> FALSE, s |-> <<>>]

\* validate_context: [ok, items, project_id, team_id]
validate_context(context) ==
    IF ~context.present THEN [ok |-> FALSE, items |-> <<>>, project_id |-> 0, team_id |-> 0]
    ELSE IF Len(context.items) = 0
    THEN [ok |-> FALSE, items |-> <<>>, project_id |-> 0, team_id |-> 0]
    ELSE IF context.project_id = 0 \/ context.team_id = 0
    THEN [ok |-> FALSE, items |-> <<>>, project_id |-> 0, team_id |-> 0]
    ELSE [ok |-> TRUE, items |-> context.items, project_id |-> context.project_id,
          team_id |-> context.team_id]

\* argument_parser: [raised, arg]
argument_parser(event, argument) ==
    LET arg == event[argument] IN
    IF ~arg.present \/ arg.s = <<>> THEN [raised |-> TRUE, arg |-> <<>>]
    ELSE [raised |-> FALSE, arg |-> arg.s]

\* str.split(",")
RECURSIVE SplitFrom(_, _, _)
SplitFrom(s, i, cur) ==
    IF i > Len(s) THEN <<cur>>
    ELSE IF s[i] = "," THEN <<cur>> \o SplitFrom(s, i + 1, <<>>)
    ELSE SplitFrom(s, i + 1, Append(cur, s[i]))

Whitespace == {" ", "\t", "\n", "\r"}

RECURSIVE LStrip(_)
LStrip(s) == IF s # <<>> /\ Head(s) \in Whitespace THEN LStrip(Tail(s)) ELSE s

RECURSIVE RStrip(_)
RStrip(s) ==
    IF s # <<>> /\ s[Len(s)] \in Whitespace THEN RStrip(SubSeq(s, 1, Len(s) - 1)) ELSE s

\* str.strip()
Strip(s) == RStrip(LStrip(s))

argument_str_to_list(arg_str) ==
    LET arg_list_tmp == SplitFrom(arg_str, 1, <<>>) IN
    [i \in 1..Len(arg_list_tmp) |-> Strip(arg_list_tmp[i])]

UpperCase == <<"A", "B", "C", "D", "E", "F", "G", "H", "I", "J", "K", "L", "M", "N", "O", "P", "Q", "R", "S", "T", "U", "V", "W", "X", "Y", "Z">>

LowerCase == <<"a", "b", "c", "d", "e", "f", "g", "h", "i", "j", "k", "l", "m", "n", "o", "p", "q", "r", "s", "t", "u", "v", "w", "x", "y", "z">>

LowerChar(c) ==
    IF \E i \in 1..26 : UpperCase[i] = c
    THEN LowerCase[CHOOSE i \in 1..26 : UpperCase[i] = c]
    ELSE c

\* str.lower()
Lower(s) == [i \in 1..Len(s) |-> LowerChar(s[i])]

\* anything but "false" counts as true
ParseCreateNotFalse(s) == Lower(s) # <<"f", "a", "l", "s", "e">>

\* argument_parser(event, CREATE_DELTA_TABLE_ARG).lower() == "true"
ParseCreate(s) == Lower(s) = <<"t", "r", "u", "e">>

(***************************************************************************)
(* The handler: names, statements and the warehouse                        *)
(* clock counts half seconds from midnight of a fixed day; volume is the   *)
(* set of staged objects [path, by], by the invocation whose file it is;   *)
(* tables the set of tables created; loaded[p] the invocation whose file   *)
(* p's COPY INTO read (0: none).                                           *)
(***************************************************************************)
MaxClock == 2

MaxBadArgs == 1

Pad2(n) == <<Digit(n \div 10), Digit(n % 10)>>

\* datetime.now().strftime("%m%d%Y_%H%M%S")
Timestamp(now) ==
    LET sec == now \div 2 IN
    <<"1", "1", "0", "2", "2", "0", "2", "6", "_">> \o Pad2(sec \div 3600) \o Pad2((sec \div 60) % 60) \o Pad2(sec % 60)

TableName(db_table, now) == db_table \o <<"_">> \o Timestamp(now)

CsvFileName(table_name) == table_name \o <<".", "c", "s", "v">>

\* the staging path without the file name
VolumePathNoFile(db_catalog, db_schema, db_volume, csv_file_name) ==
    <<"/", "V", "o", "l", "u", "m", "e", "s", "/">> \o db_catalog \o <<"/">> \o db_schema \o <<"/">> \o db_volume
        \o <<"/", "s", "u", "p", "e", "r", "a", "n", "n", "o", "t", "a", "t", "e", "/">>

\* '/Volumes/{db_catalog}/{db_schema}/{db_volume}/superannotate/{csv_file_name}'
VolumePath(db_catalog, db_schema, db_volume, csv_file_name) ==
    <<"/", "V", "o", "l", "u", "m", "e", "s", "/">> \o db_catalog \o <<"/">> \o db_schema \o <<"/">> \o db_volume
        \o <<"/", "s", "u", "p", "e", "r", "a", "n", "n", "o", "t", "a", "t", "e", "/">> \o csv_file_name

\* {db_catalog}.{db_schema}.{db_table}
QualifiedTable(db_catalog, db_schema, db_table) ==
    db_catalog \o <<".">> \o db_schema \o <<".">> \o db_table

NoLocals ==
    [sa_data |-> validate_context([present |-> FALSE, items |-> <<>>, project_id |-> 0, team_id |-> 0]),
     missing |-> "",
     sa_component_ids |-> <<>>, db_column_names |-> <<>>,
     db_catalog |-> <<>>, db_schema |-> <<>>, db_table |-> <<>>, db_volume |-> <<>>,
     create_delta_table |-> FALSE,
     annotation_data |-> <<>>,
     now |-> 0, table_name |-> <<>>, csv_file_name |-> <<>>,
     csv |-> NoResult, staged |-> FALSE]

NoConn == [opened |-> FALSE, session |-> "none", cursor |-> "none"]

\* the steps of handler in program order
Steps ==
    <<"env", "validate", "args", "fetch", "write", "connect", "stage", "create", "load",
      "remove", "disconnect">>

\* the same without the cleanup of the staged file
NextStepNoRemove(step, create_delta_table) ==
    CASE step = "stage" -> IF create_delta_table THEN "create" ELSE "disconnect"
      [] step = "create" -> "load"
      [] step = "load" -> "disconnect"
      [] step = "remove" -> "disconnect"

\* the step after a statement step: lines 199 to 207
NextStep(step, create_delta_table) ==
    CASE step = "stage" -> IF create_delta_table THEN "create" ELSE "disconnect"
      [] step = "create" -> "load"
      [] step = "load" -> "remove"
      [] step = "remove" -> "disconnect"

\* an exception in a statement step handled by closing the connection
AfterErrorFinally(step) ==
    IF step \in {"stage", "create", "load", "remove"} THEN "disconnect" ELSE "done"

\* no step of handler catches an exception: the run ends where it is raised
AfterError(step) == "done"

\* the statement of a step: [op, table, path]
Statement(step, l) ==
    LET path == VolumePath(l.db_catalog, l.db_schema, l.db_volume, l.csv_file_name)
        table == QualifiedTable(l.db_catalog, l.db_schema, l.table_name)
    IN  CASE step = "stage" -> [op |-> "PUT", table |-> <<>>, path |-> path]
          [] step = "create" -> [op |-> "CREATE", table |-> table, path |-> <<>>]
          [] step = "load" -> [op |-> "COPY", table |-> table, path |-> path]
          [] step = "remove" -> [op |-> "REMOVE", table |-> <<>>, path |-> path]

At(path) == {o \in volume : o.path = path}

\* a step raises: the exception leaves handler
Abort(p, step) ==
    /\ pc' = [pc EXCEPT ![p] = AfterError(step)]
    /\ outcome' = [outcome EXCEPT ![p] = "raised"]
    /\ trace' = [trace EXCEPT ![p] = Append(@, step)]

Advance(p, step, next) ==
    /\ pc' = [pc EXCEPT ![p] = next]
    /\ trace' = [trace EXCEPT ![p] = Append(@, step)]
    /\ UNCHANGED outcome

(***************************************************************************)
(* The steps of handler                                                    *)
(***************************************************************************)
\* lines 162 to 169: the two tokens, then SAClient(SA_TOKEN)
CheckEnv(p) ==
    /\ pc[p] = "env"
    /\ \/ /\ ~(inputs[p].env.SA_TEAM_TOKEN /\ inputs[p].env.DB_ACCESS_TOKEN)
          /\ Abort(p, "env")
       \/ /\ inputs[p].env.SA_TEAM_TOKEN /\ inputs[p].env.DB_ACCESS_TOKEN
          /\ Abort(p, "env")
       \/ /\ inputs[p].env.SA_TEAM_TOKEN /\ inputs[p].env.DB_ACCESS_TOKEN
          /\ Advance(p, "env", "validate")
    /\ UNCHANGED <<proj, csvw, procs, inputs, stmts, locals, conn, clock, volume, tables, loaded>>

\* lines 171 to 175: an invalid context is printed and handler returns
ValidateContext(p) ==
    /\ pc[p] = "validate"
    /\ LET sa_data == validate_context(inputs[p].context) IN
       /\ locals' = [locals EXCEPT ![p].sa_data = sa_data]
       /\ trace' = [trace EXCEPT ![p] = Append(@, "validate")]
       /\ IF ~sa_data.ok
          THEN /\ pc' = [pc EXCEPT ![p] = "done"]
               /\ outcome' = [outcome EXCEPT ![p] = "returned_invalid"]
          ELSE /\ pc' = [pc EXCEPT ![p] = "args"]
               /\ UNCHANGED outcome
    /\ UNCHANGED <<proj, csvw, procs, inputs, stmts, conn, clock, volume, tables, loaded>>

\* the first argument, in the order of lines 177 to 185, that argument_parser rejects
FirstMissing(event) ==
    LET bad == {i \in 1..Len(Arguments) : argument_parser(event, Arguments[i]).raised} IN
    IF bad = {} THEN "" ELSE Arguments[CHOOSE i \in bad : \A j \in bad : i <= j]

\* lines 177 to 185
ParseArgs(p) ==
    /\ pc[p] = "args"
    /\ LET event == inputs[p].event
           missing == FirstMissing(event)
       IN  IF missing # ""
           THEN /\ locals' = [locals EXCEPT ![p].missing = missing]
                /\ Abort(p, "args")
           ELSE /\ locals' = [locals EXCEPT
                     ![p].sa_component_ids =
                         argument_str_to_list(argument_parser(event, SA_COMPONENT_IDS_ARG).arg),
                     ![p].db_column_names =
                         argument_str_to_list(argument_parser(event, DB_COLUMN_NAMES_ARG).arg),
                     ![p].db_catalog = argument_parser(event, DB_CATALOG_ARG).arg,
                     ![p].db_schema = argument_parser(event, DB_SCHEMA_ARG).arg,
                     ![p].db_table = argument_parser(event, DB_TABLE_ARG).arg,
                     ![p].db_volume = argument_parser(event, DB_VOLUME_ARG).arg,
                     ![p].create_delta_table =
                         ParseCreate(argument_parser(event, CREATE_DELTA_TABLE_ARG).arg)]
                /\ Advance(p, "args", "fetch")
    /\ UNCHANGED <<proj, csvw, procs, inputs, stmts, conn, clock, volume, tables, loaded>>

\* lines 187 to 188: sa.get_annotations returns the documents or raises
Fetch(p) ==
    /\ pc[p] = "fetch"
    /\ \/ /\ Abort(p, "fetch")
          /\ UNCHANGED locals
       \/ /\ \E data \in inputs[p].fetchable :
                locals' = [locals EXCEPT ![p].annotation_data = data]
          /\ Advance(p, "fetch", "write")
    /\ UNCHANGED <<proj, csvw, procs, inputs, stmts, conn, clock, volume, tables, loaded>>

\* lines 189 to 193: the names from the clock, then write_csv_file
WriteFile(p) ==
    /\ pc[p] = "write"
    /\ LET l == locals[p]
           now == clock
           table_name == TableName(l.db_table, now)
           csv == write_csv_file(l.db_column_names, l.annotation_data, l.sa_component_ids)
       IN  /\ locals' = [locals EXCEPT ![p].now = now,
                                       ![p].table_name = table_name,
                                       ![p].csv_file_name = CsvFileName(table_name),
                                       ![p].csv = csv]
           /\ IF csv.raised THEN Abort(p, "write") ELSE Advance(p, "write", "connect")
    /\ UNCHANGED <<proj, csvw, procs, inputs, stmts, conn, clock, volume, tables, loaded>>

\* lines 195 to 197, db_connect: sql.connect, then connection.cursor()
Connect(p) ==
    /\ pc[p] = "connect"
    /\ \/ /\ Abort(p, "connect")
          /\ UNCHANGED conn
       \/ /\ Abort(p, "connect")
          /\ conn' = [conn EXCEPT ![p] = [opened |-> FALSE, session |-> "open", cursor |-> "none"]]
       \/ /\ Advance(p, "connect", "stage")
          /\ conn' = [conn EXCEPT ![p] = [opened |-> TRUE, session |-> "open", cursor |-> "open"]]
    /\ UNCHANGED <<proj, csvw, procs, inputs, stmts, locals, clock, volume, tables, loaded>>

\* db_execute: cursor.execute(query) raises, or takes effect and
\* cursor.fetchall() raises or returns
Execute(p, step, effect) ==
    /\ pc[p] = step
    /\ conn[p].cursor = "open"
    /\ stmts' = [stmts EXCEPT ![p] = Append(@, Statement(step, locals[p]))]
    /\ \/ /\ Abort(p, step)
          /\ UNCHANGED <<locals, volume, tables, loaded>>
       \/ /\ effect
          /\ Abort(p, step)
       \/ /\ effect
          /\ Advance(p, step, NextStep(step, locals[p].create_delta_table))
    /\ UNCHANGED <<proj, csvw, procs, inputs, conn, clock>>

\* lines 198 to 199, db_upload_to_volume: PUT ... OVERWRITE
Stage(p) ==
    Execute(p, "stage",
            LET path == Statement("stage", locals[p]).path IN
            /\ volume' = (volume \ At(path)) \cup {[path |-> path, by |-> p]}
            /\ locals' = [locals EXCEPT ![p].staged = TRUE]
            /\ UNCHANGED <<tables, loaded>>)

\* lines 201 to 202, db_create_table: CREATE TABLE IF NOT EXISTS
CreateTable(p) ==
    Execute(p, "create",
            /\ tables' = tables \cup {Statement("create", locals[p]).table}
            /\ UNCHANGED <<locals, volume, loaded>>)

\* lines 203 to 204, db_volume_to_table: COPY INTO the table FROM the staged path
Load(p) ==
    Execute(p, "load",
            LET st == Statement("load", locals[p]) IN
            /\ st.table \in tables
            /\ \E o \in At(st.path) : loaded' = [loaded EXCEPT ![p] = o.by]
            /\ UNCHANGED <<locals, volume, tables>>)

\* lines 205 to 206, db_delete_from_volume: REMOVE the staged path
Remove(p) ==
    Execute(p, "remove",
            /\ volume' = volume \ At(Statement("remove", locals[p]).path)
            /\ UNCHANGED <<locals, tables, loaded>>)

\* lines 207 to 209, db_disconnect: cursor.close(), then connection.close()
Disconnect(p) ==
    /\ pc[p] = "disconnect"
    /\ \/ /\ Abort(p, "disconnect")
          /\ UNCHANGED conn
       \/ /\ Abort(p, "disconnect")
          /\ conn' = [conn EXCEPT ![p].cursor = "closed"]
       \/ /\ conn' = [conn EXCEPT ![p].cursor = "closed", ![p].session = "closed"]
          /\ pc' = [pc EXCEPT ![p] = "done"]
          /\ outcome' = [outcome EXCEPT ![p] = "completed"]
          /\ trace' = [trace EXCEPT ![p] = Append(@, "disconnect")]
    /\ UNCHANGED <<proj, csvw, procs, inputs, stmts, locals, clock, volume, tables, loaded>>

\* time passes
Tick ==
    /\ clock < MaxClock
    /\ clock' = clock + 1
    /\ UNCHANGED <<proj, csvw, procs, inputs, pc, outcome, trace, stmts, locals, conn, volume,
                   tables, loaded>>

(***************************************************************************)
(* Invocations of handler                                                  *)
(***************************************************************************)
Environments == [SA_TEAM_TOKEN : BOOLEAN, DB_ACCESS_TOKEN : BOOLEAN]

BothTokens == [SA_TEAM_TOKEN |-> TRUE, DB_ACCESS_TOKEN |-> TRUE]

ValidContext == [present |-> TRUE, items |-> <<"it1">>, project_id |-> 7, team_id |-> 9]

Contexts ==
    {ValidContext,
     [present |-> FALSE, items |-> <<>>, project_id |-> 0, team_id |-> 0],
     [ValidContext EXCEPT !.items = <<>>],
     [ValidContext EXCEPT !.project_id = 0],
     [ValidContext EXCEPT !.team_id = 0]}

ArgumentNames == Elems(Arguments)

Event(ids, columns, table, volume_name, create) ==
    [a \in ArgumentNames |->
        CASE a = SA_COMPONENT_IDS_ARG -> Given(ids)
          [] a = DB_COLUMN_NAMES_ARG -> Given(columns)
          [] a = DB_SERVER_HOSTNAME_ARG -> Given(<<"h">>)
          [] a = DB_HTTP_PATH_ARG -> Given(<<"/", "w">>)
          [] a = DB_CATALOG_ARG -> Given(<<"c">>)
          [] a = DB_SCHEMA_ARG -> Given(<<"s">>)
          [] a = DB_TABLE_ARG -> Given(table)
          [] a = DB_VOLUME_ARG -> Given(volume_name)
          [] a = CREATE_DELTA_TABLE_ARG -> Given(create)]

CreateValues == {<<"t", "r", "u", "e">>, <<"T", "R", "U", "E">>, <<"f", "a", "l", "s", "e">>, <<"1">>}

CompleteEvents ==
    {Event(i, c, <<"t">>, <<"v">>, cr) :
        i \in {<<"a">>, <<"a", ",", " ", "b">>}, c \in {<<"a">>, <<"a", ",", "b">>}, cr \in CreateValues}

\* the event with the arguments of bad absent or empty
Without(event, bad, kind) ==
    [a \in ArgumentNames |-> IF a \in bad THEN kind[a] ELSE event[a]]

Events ==
    {Without(e, bad, kind) :
        e \in CompleteEvents,
        bad \in {b \in SUBSET ArgumentNames : Cardinality(b) <= MaxBadArgs},
        kind \in [ArgumentNames -> {Absent}] \cup [ArgumentNames -> {Given(<<>>)}]}

GoodDoc == Doc(<<Inst(<<PyStr(A)>>, <<Attr(PyStr(<<"x">>))>>)>>)

BadDoc == Doc(<<Inst(<<PyStr(A)>>, <<>>)>>)

FetchResults == {<<>>, <<GoodDoc>>, <<GoodDoc, BadDoc>>}

InitHandler(P, I) ==
    /\ proj = NoProj
    /\ csvw = NoCsv
    /\ procs = P
    /\ inputs \in [P -> I]
    /\ pc = [p \in P |-> "env"]
    /\ outcome = [p \in P |-> "running"]
    /\ trace = [p \in P |-> <<>>]
    /\ stmts = [p \in P |-> <<>>]
    /\ locals = [p \in P |-> NoLocals]
    /\ conn = [p \in P |-> NoConn]
    /\ clock = 0
    /\ volume = {}
    /\ tables = {}
    /\ loaded = [p \in P |-> 0]

\* one invocation, with any environment, context and event
Init ==
    InitHandler({1}, [env : Environments, context : Contexts, event : Events,
                      fetchable : {FetchResults}])

Next ==
    \/ Tick
    \/ \E p \in procs : CheckEnv(p)
    \/ \E p \in procs : ValidateContext(p)
    \/ \E p \in procs : ParseArgs(p)
    \/ \E p \in procs : Fetch(p)
    \/ \E p \in procs : WriteFile(p)
    \/ \E p \in procs : Connect(p)
    \/ \E p \in procs : Stage(p)
    \/ \E p \in procs : CreateTable(p)
    \/ \E p \in procs : Load(p)
    \/ \E p \in procs : Remove(p)
    \/ \E p \in procs : Disconnect(p)

Spec == Init /\ [][Next]_vars

\* two invocations at once against one warehouse
RaceEvents ==
    {Event(<<"a">>, <<"a">>, t, v, cr) :
        t \in {<<"t">>, <<"u">>}, v \in {<<"v">>, <<"w">>},
        cr \in {<<"t", "r", "u", "e">>, <<"f", "a", "l", "s", "e">>}}

RaceInputs ==
    [env : {BothTokens}, context : {ValidContext}, event : RaceEvents, fetchable : {{<<GoodDoc>>}}]
    \cup [env : Environments \ {BothTokens}, context : {ValidContext},
          event : {Event(<<"a">>, <<"a">>, <<"t">>, <<"v">>, <<"t", "r", "u", "e">>)},
          fetchable : {{<<GoodDoc>>}}]

InitRace == InitHandler({1, 2}, RaceInputs)

SpecRace == InitRace /\ [][Next]_vars

(***************************************************************************)
(* Properties of the handler                                               *)
(***************************************************************************)
Ops(statements) == [i \in 1..Len(statements) |-> statements[i].op]

IsPrefix(a, b) == Len(a) <= Len(b) /\ a = SubSeq(b, 1, Len(a))

Last(a) == a[Len(a)]

RECURSIVE Filter(_, _)
Filter(a, S) ==
    IF a = <<>> THEN <<>>
    ELSE (IF Head(a) \in S THEN <<Head(a)>> ELSE <<>>) \o Filter(Tail(a), S)

\* "true" in any mix of cases
TrueAnyCase == {<<t, r, u, e>> : t \in {"t", "T"}, r \in {"r", "R"}, u \in {"u", "U"}, e \in {"e", "E"}}

ArgumentMissing(event) == \E a \in ArgumentNames : ~event[a].present \/ event[a].s = <<>>

TokenMissing(env) == ~env.SA_TEAM_TOKEN \/ ~env.DB_ACCESS_TOKEN

ContextInvalid(context) ==
    \/ ~context.present
    \/ context.items = <<>>
    \/ context.project_id = 0
    \/ context.team_id = 0

StagedPath(p) ==
    VolumePath(locals[p].db_catalog, locals[p].db_schema, locals[p].db_volume,
               locals[p].csv_file_name)

\* C1: a run that completes with create_delta_table parsed as true has issued
\* exactly the four statements PUT, CREATE TABLE, COPY INTO, REMOVE, once each
\* and in that order, the COPY and the REMOVE on the path of the PUT and the
\* COPY into the table of the CREATE.
C1_FourStatements ==
    \A p \in procs :
        (outcome[p] = "completed" /\ locals[p].create_delta_table) =>
            /\ Ops(stmts[p]) = <<"PUT", "CREATE", "COPY", "REMOVE">>
            /\ stmts[p][3].path = stmts[p][1].path
            /\ stmts[p][4].path = stmts[p][1].path
            /\ stmts[p][3].table = stmts[p][2].table

\* a run given "TRUE" has completed with the four statements
C1_Witness ==
    /\ outcome[1] = "completed"
    /\ inputs[1].event[CREATE_DELTA_TABLE_ARG].s = <<"T", "R", "U", "E">>
    /\ locals[1].create_delta_table
    /\ Len(stmts[1]) = 4
    /\ Len(locals[1].annotation_data) = 1

\* C2: when create_delta_table is a non-empty string other than "true" in any
\* case, no statement but the PUT is ever issued, and a file the run has
\* staged is still in the volume when the run has ended.
C2_StageOnly ==
    \A p \in procs :
        LET create == inputs[p].event[CREATE_DELTA_TABLE_ARG] IN
        (create.present /\ create.s # <<>> /\ create.s \notin TrueAnyCase) =>
            /\ Ops(stmts[p]) \in {<<>>, <<"PUT">>}
            /\ (pc[p] = "done" /\ locals[p].staged) =>
                   [path |-> StagedPath(p), by |-> p] \in volume

\* a run given "1" has completed: one PUT, the file left in the volume
C2_Witness ==
    /\ outcome[1] = "completed"
    /\ inputs[1].event[CREATE_DELTA_TABLE_ARG].s = <<"1">>
    /\ Ops(stmts[1]) = <<"PUT">>
    /\ volume = {[path |-> StagedPath(1), by |-> 1]}
    /\ conn[1].session = "closed"

\* C3: with a token or a required argument missing, the run ends with an error
\* raised before the fetch, before a file is written and before a connection
\* is opened or a statement issued.
C3_AsStated ==
    \A p \in procs :
        (pc[p] = "done" /\ (TokenMissing(inputs[p].env) \/ ArgumentMissing(inputs[p].event))) =>
            /\ outcome[p] = "raised"
            /\ Filter(trace[p], {"fetch", "write", "connect"}) = <<>>
            /\ conn[p] = NoConn
            /\ stmts[p] = <<>>

\* C4: with an invalid context the run ends with an error raised before any
\* remote call, and a run that returns without an error has succeeded.
C4_AsStated ==
    \A p \in procs :
        pc[p] = "done" =>
            /\ ContextInvalid(inputs[p].context) =>
                  /\ outcome[p] = "raised"
                  /\ Filter(trace[p], {"fetch", "connect", "stage"}) = <<>>
            /\ outcome[p] # "raised" => outcome[p] = "completed"

\* C5: a run that has opened a connection has closed the cursor and the
\* session by the time it ends, however it ends.
C5_AsStated ==
    \A p \in procs :
        (pc[p] = "done" /\ conn[p].opened) =>
            /\ conn[p].cursor = "closed"
            /\ conn[p].session = "closed"

\* the steps a run takes when nothing fails
ExpectedSteps(create_delta_table) ==
    IF create_delta_table THEN Steps
    ELSE Filter(Steps, Elems(Steps) \ {"create", "load", "remove"})

StatementOf(step) ==
    CASE step = "stage" -> "PUT"
      [] step = "create" -> "CREATE"
      [] step = "load" -> "COPY"
      [] step = "remove" -> "REMOVE"

StatementSteps(steps) ==
    LET f == Filter(steps, {"stage", "create", "load", "remove"}) IN
    [i \in 1..Len(f) |-> StatementOf(f[i])]

C9_Order ==
    \A p \in procs :
        /\ IsPrefix(trace[p], ExpectedSteps(locals[p].create_delta_table))
        /\ Ops(stmts[p]) = StatementSteps(trace[p])
        /\ outcome[p] = "raised" => pc[p] = "done"
        /\ pc[p] = "done" <=> outcome[p] # "running"
        /\ conn[p].session # "none" => \E i \in 1..Len(trace[p]) : trace[p][i] = "connect"
        /\ conn[p].cursor = "closed" => Last(trace[p]) = "disconnect"

C9_Ended ==
    \A p \in procs :
        outcome[p] # "running" =>
            /\ trace'[p] = trace[p]
            /\ stmts'[p] = stmts[p]
            /\ conn'[p] = conn[p]
            /\ outcome'[p] = outcome[p]

\* C9: the steps run in program order, each at most once, and a step that
\* fails ends the run: no step, statement or disconnect follows it.
C9_Sequential == []C9_Order /\ [][C9_Ended]_vars

\* the load has failed: no REMOVE was issued and the connection is still open
C9_Witness ==
    /\ outcome[1] = "raised"
    /\ trace[1] = SubSeq(Steps, 1, 9)
    /\ Ops(stmts[1]) = <<"PUT", "CREATE", "COPY">>
    /\ conn[1] = [opened |-> TRUE, session |-> "open", cursor |-> "open"]

Named(p) == locals[p].csv_file_name # <<>>

SameDestination(p, q) ==
    /\ locals[p].db_catalog = locals[q].db_catalog
    /\ locals[p].db_schema = locals[q].db_schema
    /\ locals[p].db_volume = locals[q].db_volume

\* C10: two invocations with the same table, catalog, schema and volume that
\* read the clock within the same second have the same file name, staged path
\* and table name; invocations whose file names differ never touch each
\* other's staged object: the object at an invocation's path is its own, its
\* COPY reads its own file, and the file stays until it removes it itself.
C10_Isolation ==
    \A p \in procs : \A q \in procs \ {p} :
        /\ (/\ Named(p) /\ Named(q) /\ SameDestination(p, q)
            /\ locals[p].db_table = locals[q].db_table
            /\ locals[p].now \div 2 = locals[q].now \div 2)
              => /\ locals[p].csv_file_name = locals[q].csv_file_name
                 /\ locals[p].table_name = locals[q].table_name
                 /\ StagedPath(p) = StagedPath(q)
        /\ (Named(q) /\ locals[p].csv_file_name # locals[q].csv_file_name)
              => /\ \A o \in At(StagedPath(q)) : o.by = q
                 /\ loaded[q] \in {0, q}
                 /\ (locals[q].staged /\ "REMOVE" \notin Elems(Ops(stmts[q])))
                        => [path |-> StagedPath(q), by |-> q] \in volume

\* the race: both invocations staged to one path at different instants of the
\* same second; 2 loaded the file 1 had put over its own and removed it, and
\* the load of 1 found no file
C10_Witness ==
    /\ locals[1].csv_file_name = locals[2].csv_file_name
    /\ locals[1].now # locals[2].now
    /\ locals[1].staged /\ locals[2].staged
    /\ loaded[2] = 1
    /\ outcome[2] = "completed"
    /\ outcome[1] = "raised"
    /\ Last(trace[1]) = "load"
    /\ loaded[1] = 0
    /\ At(StagedPath(1)) = {}

====
